---- MODULE Spec2Model ----
(***************************************************************************)
(* Model of the CINCPro delivery subsystem: the OAuth session of auth.py   *)
(* (reset_session, get_auth_url, exchange_code_for_token, refresh_token,   *)
(* authenticate) and the CINCProDeliverer of api.py (construction with     *)
(* credential verification, deliver over a thread pool, the per-lead       *)
(* try/except, the payload builder and the rate-limited POST).             *)
(***************************************************************************)
EXTENDS Integers, Sequences, FiniteSets, TLC

\* ------------------------------------------------------------------ bounds
\* Opaque token / state strings are the numbers 1..MaxTok.
MaxTok == 2
\* Longest batch handed to deliver.
MaxBatch == 3
\* Largest n_threads a deliverer is constructed with.
MaxThreads == 2

\* ------------------------------------------------------------- value model
\* Python's None (also: a key absent from a JSON object, an empty string).
None == 0
\* pandas' NA scalar: bool(pd.NA) raises TypeError.
NA == 0 - 1
\* A column the data frame does not have: lead.get gives None, lead[...] raises.
Missing == 0 - 2
\* float('nan'), what pandas puts in an empty cell: bool(nan) is True and
\* str(nan) is 'nan'.
NaN == 0 - 3
\* No HTTP response at all: requests raises ConnectionError.
NoResponse == 0

Tokens == 1..MaxTok
\* The authorization code of the redirect: it only travels in the request.
AuthCodes == {1}
StatusCodes == {200, 401, 403, 500}

\* requests.Response.ok: the status is below 400.
ok(status) ==
    status < 400

\* requests.Response.raise_for_status raises HTTPError on 4xx and 5xx.
raise_for_status(status) ==
    status >= 400 /\ status < 600

\* str(e) of the exceptions the model raises.
str(exc) ==
    CASE exc = "HTTPError" -> "500 Server Error"
      [] exc = "ConnectionError" -> "Connection aborted"
      [] exc = "TypeError" -> "boolean value of NA is ambiguous"
      [] exc = "KeyError" -> "'zip_code'"
      [] exc = "AttributeError" -> "'list' object has no attribute 'get'"
      [] OTHER -> exc

VARIABLES
    session,        \* st.session_state
    last,           \* the last auth.py call: its name, what it raised, its HTTP traffic
    eng,            \* the CINCProDeliverer the caller holds
    vlog,           \* the last run of _verify_api_credentials
    failed_leads,   \* self.failed_leads
    phase,          \* of deliver: "idle", "running", "returned", "raised"
    batch,          \* the rows of the data frame handed to deliver
    task,           \* per row: the position of _deliver_single_lead on it
    returned,       \* the list deliver returned
    rl              \* calls the rate limiter admitted in the current window, per wrapped function

vars == <<session, last, eng, vlog, failed_leads, phase, batch, task, returned, rl>>

engineVars == <<eng, vlog, failed_leads, phase, batch, task, returned, rl>>

\* ------------------------------------------------------------------ auth.py

\* st.session_state before anything is stored: every .get gives None.
EmptySession ==
    [authenticated |-> FALSE, access_token |-> None, refresh_token |-> None,
     username |-> None, state |-> None]

reset_session(s) ==
    [authenticated |-> FALSE, access_token |-> None, refresh_token |-> None,
     username |-> None, state |-> None]

\* What the token endpoint may answer: no answer, an error status, or 200 with
\* a JSON object in which either token may be absent.
TokenResponses ==
    [status : {NoResponse, 500}, access_token : {None}, refresh_token : {None}]
    \cup [status : {200}, access_token : {None} \cup Tokens, refresh_token : {None} \cup Tokens]

\* What a function without a return statement hands its caller, as a token
\* pair.
NoReturn ==
    <<None, None>>

\* The result of a call: the session afterwards, the exception raised ("none"
\* when it returned), the number of POSTs to the token endpoint and what the
\* caller is handed.
exchange_without_reset(s, code, resp) ==
    IF resp.status = NoResponse
    THEN [session |-> s, exc |-> "ConnectionError", posts |-> 1, ret |-> NoReturn]
    ELSE IF raise_for_status(resp.status)
    THEN [session |-> s, exc |-> "HTTPError", posts |-> 1, ret |-> NoReturn]
    ELSE IF resp.access_token = None \/ resp.refresh_token = None
    THEN [session |-> s, exc |-> "AuthError", posts |-> 1, ret |-> NoReturn]
    ELSE [session |-> [s EXCEPT !.access_token = resp.access_token,
                                !.refresh_token = resp.refresh_token],
          exc |-> "none", posts |-> 1, ret |-> NoReturn]

exchange_code_for_token(s, code, resp) ==
    IF resp.status = NoResponse
    THEN [session |-> s, exc |-> "ConnectionError", posts |-> 1, ret |-> NoReturn]
    ELSE IF raise_for_status(resp.status)
    THEN [session |-> s, exc |-> "HTTPError", posts |-> 1, ret |-> NoReturn]
    ELSE IF resp.access_token = None \/ resp.refresh_token = None
    THEN [session |-> reset_session(s), exc |-> "AuthError", posts |-> 1, ret |-> NoReturn]
    ELSE [session |-> [s EXCEPT !.access_token = resp.access_token,
                                !.refresh_token = resp.refresh_token],
          exc |-> "none", posts |-> 1, ret |-> NoReturn]

refresh_token_returns_pair(s, refresh_token_arg, resp) ==
    IF resp.status = NoResponse
    THEN [session |-> s, exc |-> "ConnectionError", posts |-> 1, ret |-> NoReturn]
    ELSE IF raise_for_status(resp.status)
    THEN [session |-> s, exc |-> "HTTPError", posts |-> 1, ret |-> NoReturn]
    ELSE IF resp.access_token = None \/ resp.refresh_token = None
    THEN [session |-> reset_session(s), exc |-> "AuthError", posts |-> 1, ret |-> NoReturn]
    ELSE [session |-> s, exc |-> "none", posts |-> 1,
          ret |-> <<resp.access_token, resp.refresh_token>>]

refresh_token_keeps_old(s, refresh_token_arg, resp) ==
    IF resp.status = NoResponse
    THEN [session |-> s, exc |-> "ConnectionError", posts |-> 1, ret |-> NoReturn]
    ELSE IF raise_for_status(resp.status)
    THEN [session |-> s, exc |-> "HTTPError", posts |-> 1, ret |-> NoReturn]
    ELSE IF resp.access_token = None \/ resp.refresh_token = None
    THEN [session |-> reset_session(s), exc |-> "AuthError", posts |-> 1, ret |-> NoReturn]
    ELSE [session |-> [s EXCEPT !.access_token = resp.access_token],
          exc |-> "none", posts |-> 1, ret |-> NoReturn]

refresh_token(s, refresh_token_arg, resp) ==
    IF resp.status = NoResponse
    THEN [session |-> s, exc |-> "ConnectionError", posts |-> 1, ret |-> NoReturn]
    ELSE IF raise_for_status(resp.status)
    THEN [session |-> s, exc |-> "HTTPError", posts |-> 1, ret |-> NoReturn]
    ELSE IF resp.access_token = None \/ resp.refresh_token = None
    THEN [session |-> reset_session(s), exc |-> "AuthError", posts |-> 1, ret |-> NoReturn]
    ELSE [session |-> [s EXCEPT !.access_token = resp.access_token,
                                !.refresh_token = resp.refresh_token],
          exc |-> "none", posts |-> 1, ret |-> NoReturn]

\* An authenticate whose handlers report the error and leave the session as
\* the failed exchange left it.
authenticate_without_reset(s, code, state, resp) ==
    IF s.state # state
    THEN [session |-> reset_session(s), exc |-> "none", posts |-> 0, ret |-> NoReturn]
    ELSE LET r == exchange_code_for_token(s, code, resp)
         IN  IF r.exc = "none"
             THEN [r EXCEPT !.session = [r.session EXCEPT !.authenticated = TRUE]]
             ELSE r

\* authenticate swallows every exception; exc is what exchange_code_for_token
\* raised inside it.
authenticate(s, code, state, resp) ==
    IF s.state # state
    THEN [session |-> reset_session(s), exc |-> "none", posts |-> 0, ret |-> NoReturn]
    ELSE LET r == exchange_code_for_token(s, code, resp)
         IN  IF r.exc = "none"
             THEN [r EXCEPT !.session = [r.session EXCEPT !.authenticated = TRUE]]
             ELSE [r EXCEPT !.session = reset_session(r.session)]

\* The token pair a session holds.
TokenPair(s) ==
    <<s.access_token, s.refresh_token>>

\* The log of one call: before is the token pair the session held when it
\* began, ret what the call handed its caller, mismatch whether the state
\* argument of authenticate differed from the stored one.
NoCall ==
    [op |-> "none", exc |-> "none", posts |-> 0, resp |-> [status |-> NoResponse,
     access_token |-> None, refresh_token |-> None], before |-> <<None, None>>,
     ret |-> NoReturn, mismatch |-> FALSE]

Logged(op, r, resp, s) ==
    [op |-> op, exc |-> r.exc, posts |-> r.posts, resp |-> resp, before |-> TokenPair(s),
     ret |-> r.ret, mismatch |-> FALSE]

ResetSession ==
    /\ session' = reset_session(session)
    /\ last' = [NoCall EXCEPT !.op = "reset_session", !.before = TokenPair(session)]
    /\ UNCHANGED engineVars

GetAuthUrl ==
    /\ \E state \in Tokens :
         session' = [session EXCEPT !.state = state]
    /\ last' = [NoCall EXCEPT !.op = "get_auth_url", !.before = TokenPair(session)]
    /\ UNCHANGED engineVars

ExchangeCode ==
    /\ \E code \in AuthCodes, resp \in TokenResponses :
         LET r == exchange_code_for_token(session, code, resp)
         IN  /\ session' = r.session
             /\ last' = Logged("exchange_code_for_token", r, resp, session)
    /\ UNCHANGED engineVars

RefreshToken ==
    /\ \E arg \in {session.refresh_token}, resp \in TokenResponses :
         LET r == refresh_token(session, arg, resp)
         IN  /\ session' = r.session
             /\ last' = Logged("refresh_token", r, resp, session)
    /\ UNCHANGED engineVars

Authenticate ==
    /\ \E code \in AuthCodes, state \in {None} \cup Tokens, resp \in TokenResponses :
         LET r == authenticate(session, code, state, resp)
         IN  /\ session' = r.session
             /\ last' = [Logged("authenticate", r, resp, session)
                            EXCEPT !.mismatch = (session.state # state)]
    /\ UNCHANGED engineVars

\* ------------------------------------------------------------ rate limiter
\* The budget of one window of the limiter behind @rate_limited().
RateCalls == 2

WrappedCalls == {"verify", "send"}

\* The wrapper lets a call start only while the window's budget is not used
\* up; otherwise the caller waits inside the wrapper.
RateLimiterAdmits(f) ==
    rl[f] < RateCalls

RateLimiterCount(f) ==
    [rl EXCEPT ![f] = @ + 1]

\* A window elapses: the budget is whole again.
Tick ==
    /\ \E f \in WrappedCalls : rl[f] > 0
    /\ rl' = [f \in WrappedCalls |-> 0]
    /\ UNCHANGED <<session, last, eng, vlog, failed_leads, phase, batch, task, returned>>

\* ------------------------------------------- api.py: credential verification
\* Python binds the arguments before the body runs: refresh_token takes exactly
\* one positional parameter.
call_refresh_token(args, s, resp) ==
    IF Len(args) # 1
    THEN [session |-> s, exc |-> "TypeError", posts |-> 0, ret |-> NoReturn]
    ELSE refresh_token(s, args[1], resp)

\* The arguments _verify_api_credentials passes to refresh_token.
verify_refresh_args ==
    << >>

\* self.api_headers["Authorization"]
api_headers(e) ==
    e.access_token

\* first and retry are the statuses /me answers the first and the second GET;
\* gets lists the Authorization value of every GET issued.
verify_refreshes_on_any_error(e, s, first, retry, tresp) ==
    IF first = NoResponse
    THEN [result |-> "raised", exc |-> "ConnectionError", gets |-> <<api_headers(e)>>,
          refresh_calls |-> 0, refresh_posts |-> 0, session |-> s]
    ELSE IF ~ok(first)
    THEN LET c == call_refresh_token(verify_refresh_args, s, tresp)
         IN  IF c.exc # "none"
             THEN [result |-> "raised", exc |-> c.exc, gets |-> <<api_headers(e)>>,
                   refresh_calls |-> 1, refresh_posts |-> c.posts, session |-> c.session]
             ELSE IF retry = NoResponse
             THEN [result |-> "raised", exc |-> "ConnectionError",
                   gets |-> <<api_headers(e), api_headers(e)>>,
                   refresh_calls |-> 1, refresh_posts |-> c.posts, session |-> c.session]
             ELSE [result |-> IF ok(retry) THEN "true" ELSE "false", exc |-> "none",
                   gets |-> <<api_headers(e), api_headers(e)>>,
                   refresh_calls |-> 1, refresh_posts |-> c.posts, session |-> c.session]
    ELSE [result |-> "true", exc |-> "none", gets |-> <<api_headers(e)>>,
          refresh_calls |-> 0, refresh_posts |-> 0, session |-> s]

verify_api_credentials(e, s, first, retry, tresp) ==
    IF first = NoResponse
    THEN [result |-> "raised", exc |-> "ConnectionError", gets |-> <<api_headers(e)>>,
          refresh_calls |-> 0, refresh_posts |-> 0, session |-> s]
    ELSE IF first = 401
    THEN LET c == call_refresh_token(verify_refresh_args, s, tresp)
         IN  IF c.exc # "none"
             THEN [result |-> "raised", exc |-> c.exc, gets |-> <<api_headers(e)>>,
                   refresh_calls |-> 1, refresh_posts |-> c.posts, session |-> c.session]
             ELSE IF retry = NoResponse
             THEN [result |-> "raised", exc |-> "ConnectionError",
                   gets |-> <<api_headers(e), api_headers(e)>>,
                   refresh_calls |-> 1, refresh_posts |-> c.posts, session |-> c.session]
             ELSE [result |-> IF ok(retry) THEN "true" ELSE "false", exc |-> "none",
                   gets |-> <<api_headers(e), api_headers(e)>>,
                   refresh_calls |-> 1, refresh_posts |-> c.posts, session |-> c.session]
    ELSE IF ok(first)
    THEN [result |-> "true", exc |-> "none", gets |-> <<api_headers(e)>>,
          refresh_calls |-> 0, refresh_posts |-> 0, session |-> s]
    ELSE [result |-> "false", exc |-> "none", gets |-> <<api_headers(e)>>,
          refresh_calls |-> 0, refresh_posts |-> 0, session |-> s]

\* ------------------------------------------------ api.py: the constructor
\* No deliverer: none was constructed, or __init__ raised exc.
NoEngine(exc) ==
    [alive |-> FALSE, access_token |-> None, tags |-> << >>, add_zip_tags |-> FALSE,
     n_threads |-> 1, exc |-> exc]

NoTokenResponse ==
    [status |-> NoResponse, access_token |-> None, refresh_token |-> None]

NoVerify ==
    [first |-> NoResponse, retry |-> NoResponse, tresp |-> NoTokenResponse,
     result |-> "none", exc |-> "none",
     gets |-> << >>, refresh_calls |-> 0, refresh_posts |-> 0]

\* What __init__ does with the outcome v of the verification: the exception it
\* raises ("none": the object is constructed).
init_accepts_unverified(v) ==
    IF v.result = "raised" THEN v.exc ELSE "none"

init_raises(v) ==
    IF v.result = "raised" THEN v.exc
    ELSE IF v.result # "true" THEN "AuthError"
    ELSE "none"

\* CINCProDeliverer(access_token, add_zip_tags=..., n_threads=...), by a caller
\* that holds no deliverer; the retry's answer and the token endpoint's matter
\* only after a first 401.
Construct(access_token, add_zip_tags, n_threads) ==
    /\ ~eng.alive
    /\ RateLimiterAdmits("verify")
    /\ \E first \in {NoResponse} \cup StatusCodes :
       \E retry \in IF first = 401 THEN {NoResponse} \cup StatusCodes ELSE {NoResponse} :
       \E tresp \in IF first = 401 THEN TokenResponses ELSE {NoTokenResponse} :
         LET self == [alive |-> TRUE, access_token |-> access_token, tags |-> << >>,
                      add_zip_tags |-> add_zip_tags, n_threads |-> n_threads, exc |-> "none"]
             v == verify_api_credentials(self, session, first, retry, tresp)
             exc == init_raises(v)
         IN  /\ vlog' = [first |-> first, retry |-> retry, tresp |-> tresp,
                         result |-> v.result, exc |-> v.exc,
                         gets |-> v.gets, refresh_calls |-> v.refresh_calls,
                         refresh_posts |-> v.refresh_posts]
             /\ eng' = IF exc = "none" THEN self ELSE NoEngine(exc)
             /\ session' = v.session
             /\ last' = [NoCall EXCEPT !.op = "CINCProDeliverer", !.exc = exc,
                                       !.before = TokenPair(session)]
    /\ rl' = RateLimiterCount("verify")
    /\ failed_leads' = << >>
    /\ phase' = "idle"
    /\ batch' = << >>
    /\ task' = << >>
    /\ returned' = << >>

\* ------------------------------------------------- api.py: payload builder
\* A lead is a row of the frame: a record of the twelve columns. A value is
\* None, NA, Missing, a string (1 .. NumBase-1) or a number (NumBase + the
\* string str() makes of it).
NumBase == 10

\* The string 'nan'.
NaNStr == 9

\* str(x) of a truthy value.
PyStr(v) ==
    IF v = NaN THEN NaNStr
    ELSE IF v >= NumBase THEN v - NumBase
    ELSE v

\* lead.get(column): None when the frame has no such column.
get(lead, column) ==
    IF column \notin DOMAIN lead THEN None
    ELSE IF lead[column] = Missing THEN None
    ELSE lead[column]

\* bool(x) in an if, a conditional expression or all(): None and '' are
\* false, pd.NA raises (NATested), everything else, nan too, is true.
Truthy(v) ==
    v # None /\ v # NA

\* str(lead.get(c)) if lead.get(c) else None
StrOrNone(lead, column) ==
    IF Truthy(get(lead, column)) THEN PyStr(get(lead, column)) ELSE None

\* The truth tests of _prepare_event_data that meet pd.NA, in program order;
\* all([...]) stops at the first falsy element.
NATested(lead) ==
    \/ \E c \in {"phone_1", "phone_2", "phone_3", "zip_code", "email_1", "insight"} :
         get(lead, c) = NA
    \/ get(lead, "address") = NA
    \/ Truthy(get(lead, "address")) /\ get(lead, "city") = NA
    \/ Truthy(get(lead, "address")) /\ Truthy(get(lead, "city")) /\ get(lead, "state") = NA

ContactKeys(lead) ==
    {"first_name", "last_name", "phone_numbers"}
    \cup (IF Truthy(get(lead, "email_1")) THEN {"email", "is_validated_email"} ELSE {})
    \cup (IF \A c \in {"address", "city", "state", "zip_code"} : Truthy(get(lead, c))
          THEN {"mailing_address"} ELSE {})

contact_info(lead) ==
    [k \in ContactKeys(lead) |->
        CASE k = "first_name" -> get(lead, "first_name")
          [] k = "last_name" -> get(lead, "last_name")
          [] k = "email" -> get(lead, "email_1")
          [] k = "is_validated_email" -> TRUE
          [] k = "phone_numbers" ->
                [cell_phone |-> StrOrNone(lead, "phone_1"),
                 home_phone |-> StrOrNone(lead, "phone_2"),
                 work_phone |-> StrOrNone(lead, "phone_3")]
          [] k = "mailing_address" ->
                [street |-> get(lead, "address"), city |-> get(lead, "city"),
                 state |-> get(lead, "state"),
                 postal_or_zip |-> StrOrNone(lead, "zip_code")]]

\* A builder that sends the configured tags as labels of the lead.
prepare_event_data_with_labels(e, lead) ==
    IF NATested(lead)
    THEN [exc |-> "TypeError", payload |-> None]
    ELSE IF e.add_zip_tags /\ lead["zip_code"] = Missing
    THEN [exc |-> "KeyError", payload |-> None]
    ELSE [exc |-> "none",
          payload |->
            [id |-> get(lead, "md5"),
             info |-> [status |-> "unworked", source |-> "Real Intent",
                       contact |-> contact_info(lead)],
             labels |-> e.tags,
             notes |-> IF Truthy(get(lead, "insight"))
                       THEN <<[content |-> get(lead, "insight"), category |-> "info",
                               created_by |-> "Real Intent"]>>
                       ELSE << >>]]

\* exc is the exception the builder raises ("none": it returns payload). The
\* two timestamps are left out of the payload. The tag block (if self.tags:
\* pass; if self.add_zip_tags and lead["zip_code"]: pass) adds nothing to the
\* payload, but it subscripts the row.
prepare_event_data(e, lead) ==
    IF NATested(lead)
    THEN [exc |-> "TypeError", payload |-> None]
    ELSE IF e.add_zip_tags /\ lead["zip_code"] = Missing
    THEN [exc |-> "KeyError", payload |-> None]
    ELSE [exc |-> "none",
          payload |->
            [id |-> get(lead, "md5"),
             info |-> [status |-> "unworked", source |-> "Real Intent",
                       contact |-> contact_info(lead)],
             notes |-> IF Truthy(get(lead, "insight"))
                       THEN <<[content |-> get(lead, "insight"), category |-> "info",
                               created_by |-> "Real Intent"]>>
                       ELSE << >>]]

\* ------------------------------------------------------- api.py: deliver
FullLead ==
    [md5 |-> 1, first_name |-> 1, last_name |-> 2, email_1 |-> 3,
     phone_1 |-> NumBase + 4, phone_2 |-> None, phone_3 |-> None,
     address |-> 5, city |-> 6, state |-> 7, zip_code |-> NumBase + 8, insight |-> 6]

\* Its email cell holds pd.NA; its identifier is that of FullLead.
NALead ==
    [md5 |-> 1, first_name |-> 1, last_name |-> 2, email_1 |-> NA,
     phone_1 |-> None, phone_2 |-> None, phone_3 |-> None,
     address |-> None, city |-> None, state |-> None, zip_code |-> None, insight |-> None]

\* Nothing but an identifier and a name.
BareLead ==
    [md5 |-> 2, first_name |-> 1, last_name |-> None, email_1 |-> None,
     phone_1 |-> None, phone_2 |-> None, phone_3 |-> None,
     address |-> None, city |-> None, state |-> None, zip_code |-> None, insight |-> None]

LeadPool ==
    {FullLead, BareLead, NALead}

SeqsUpTo(S, n) ==
    UNION {[1..k -> S] : k \in 0..n}

\* The frames handed to deliver, the empty one among them.
Batches ==
    SeqsUpTo(LeadPool, MaxBatch)

NoOutcome ==
    [status |-> "none", error |-> ""]

\* A submitted call of _deliver_single_lead: where it is, what was raised in
\* its try block, how often it built and posted, its event_data (NoPayload
\* while the name is unbound), the Authorization it sent, and what it
\* returned.
NoPayload ==
    [id |-> None]

NewTask ==
    [pc |-> "pending", exc |-> "none", builds |-> 0, posts |-> 0, payload |-> NoPayload,
     auth |-> None, outcome |-> NoOutcome]

InFlight ==
    {i \in DOMAIN task : task[i].pc \in {"building", "waiting", "posting"}}

\* What the leads endpoint may answer: no answer, 500, or 200 with a JSON
\* object.
PostResponses ==
    {[status |-> NoResponse, json |-> "none"], [status |-> 500, json |-> "none"],
     [status |-> 200, json |-> "object"]}

\* _send_event after the POST, then the trace line of _deliver_single_lead.
send_event_result(resp) ==
    IF resp.status = NoResponse THEN "ConnectionError"
    ELSE IF raise_for_status(resp.status) THEN "HTTPError"
    ELSE IF resp.json # "object" THEN "AttributeError"
    ELSE "none"

\* The except clause: the exception kinds it catches, the entry it appends to
\* self.failed_leads and the dict it returns.
except_misses_http_errors(lead, exc) ==
    [caught |-> exc \notin {"HTTPError", "ConnectionError"},
     entry |-> [md5 |-> get(lead, "md5"), error |-> str(exc)],
     outcome |-> [status |-> "failed", error |-> str(exc)]]

except_entry_without_md5(lead, exc) ==
    [caught |-> TRUE,
     entry |-> [md5 |-> get(lead, "id"), error |-> str(exc)],
     outcome |-> [status |-> "failed", error |-> str(exc)]]

except_Exception(lead, exc) ==
    [caught |-> TRUE,
     entry |-> [md5 |-> get(lead, "md5"), error |-> str(exc)],
     outcome |-> [status |-> "failed", error |-> str(exc)]]

\* The append as a read of the list followed by a write of the longer one:
\* the entry of a worker is lost when another worker is between the two.
Raise_lost_update(i, t, exc) ==
    LET h == except_Exception(batch[i], exc)
    IN  /\ failed_leads' = IF Cardinality(InFlight) > 1
                           THEN failed_leads
                           ELSE Append(failed_leads, h.entry)
        /\ task' = [task EXCEPT ![i] = [t EXCEPT !.pc = "done", !.exc = exc,
                                                 !.outcome = h.outcome]]

\* Task i, standing at t, raises exc in its try block. list.append is one
\* call into the interpreter, which no other thread's append can split.
Raise(i, t, exc) ==
    LET h == except_Exception(batch[i], exc)
    IN  IF h.caught
        THEN /\ failed_leads' = Append(failed_leads, h.entry)
             /\ task' = [task EXCEPT ![i] = [t EXCEPT !.pc = "done", !.exc = exc,
                                                      !.outcome = h.outcome]]
        ELSE /\ failed_leads' = failed_leads
             /\ task' = [task EXCEPT ![i] = [t EXCEPT !.pc = "done", !.exc = exc,
                                     !.outcome = [status |-> "raised", error |-> str(exc)]]]

\* deliver(data): executor.map submits one task per row, in order.
Deliver ==
    /\ eng.alive
    /\ phase = "idle"
    /\ \E data \in Batches :
         /\ batch' = data
         /\ task' = [i \in DOMAIN data |-> NewTask]
    /\ phase' = "running"
    /\ UNCHANGED <<session, last, eng, vlog, failed_leads, returned, rl>>

\* A pool that starts a thread per submitted task.
Take_unbounded(i) ==
    /\ phase = "running"
    /\ task[i].pc = "pending"
    /\ \A j \in 1..(i - 1) : task[j].pc # "pending"
    /\ task' = [task EXCEPT ![i].pc = "building"]
    /\ UNCHANGED <<session, last, eng, vlog, failed_leads, phase, batch, returned, rl>>

\* A worker of the pool takes the next task of the queue.
Take(i) ==
    /\ phase = "running"
    /\ task[i].pc = "pending"
    /\ \A j \in 1..(i - 1) : task[j].pc # "pending"
    /\ Cardinality(InFlight) < eng.n_threads
    /\ task' = [task EXCEPT ![i].pc = "building"]
    /\ UNCHANGED <<session, last, eng, vlog, failed_leads, phase, batch, returned, rl>>

Build(i) ==
    /\ phase = "running"
    /\ task[i].pc = "building"
    /\ LET r == prepare_event_data(eng, batch[i])
           t == [task[i] EXCEPT !.builds = @ + 1]
       IN  IF r.exc = "none"
           THEN /\ task' = [task EXCEPT ![i] = [t EXCEPT !.pc = "waiting",
                                                         !.payload = r.payload]]
                /\ failed_leads' = failed_leads
           ELSE Raise(i, t, r.exc)
    /\ UNCHANGED <<session, last, eng, vlog, phase, batch, returned, rl>>

SendStart_unthrottled(i) ==
    /\ phase = "running"
    /\ task[i].pc = "waiting"
    /\ rl' = RateLimiterCount("send")
    /\ task' = [task EXCEPT ![i].pc = "posting", ![i].posts = @ + 1,
                            ![i].auth = api_headers(eng)]
    /\ UNCHANGED <<session, last, eng, vlog, failed_leads, phase, batch, returned>>

\* The rate limiter admits _send_event, which issues the POST.
SendStart(i) ==
    /\ phase = "running"
    /\ task[i].pc = "waiting"
    /\ RateLimiterAdmits("send")
    /\ rl' = RateLimiterCount("send")
    /\ task' = [task EXCEPT ![i].pc = "posting", ![i].posts = @ + 1,
                            ![i].auth = api_headers(eng)]
    /\ UNCHANGED <<session, last, eng, vlog, failed_leads, phase, batch, returned>>

\* A worker that sends a lead again when its POST failed.
SendEnd_retries(i) ==
    /\ phase = "running"
    /\ task[i].pc = "posting"
    /\ \E resp \in PostResponses :
         LET exc == send_event_result(resp)
         IN  IF exc = "none"
             THEN /\ task' = [task EXCEPT ![i].pc = "done",
                                ![i].outcome = [status |-> "delivered", error |-> ""]]
                  /\ failed_leads' = failed_leads
             ELSE IF task[i].posts < 2
             THEN /\ task' = [task EXCEPT ![i].pc = "waiting"]
                  /\ failed_leads' = failed_leads
             ELSE Raise(i, task[i], exc)
    /\ UNCHANGED <<session, last, eng, vlog, phase, batch, returned, rl>>

\* The POST is answered (or fails), and the task ends.
SendEnd(i) ==
    /\ phase = "running"
    /\ task[i].pc = "posting"
    /\ \E resp \in PostResponses :
         LET exc == send_event_result(resp)
         IN  IF exc = "none"
             THEN /\ task' = [task EXCEPT ![i].pc = "done",
                                ![i].outcome = [status |-> "delivered", error |-> ""]]
                  /\ failed_leads' = failed_leads
             ELSE Raise(i, task[i], exc)
    /\ UNCHANGED <<session, last, eng, vlog, phase, batch, returned, rl>>

\* list(executor.map(...)): the results in the order of the rows, or the
\* first exception a task let through.
map_results_drop_failed(t) ==
    SelectSeq([i \in DOMAIN t |-> t[i].outcome], LAMBDA o : o.status # "failed")

\* The results in an order that is not the rows': last row first.
map_results_reversed(t) ==
    [i \in DOMAIN t |-> t[Len(t) + 1 - i].outcome]

map_results(t) ==
    [i \in DOMAIN t |-> t[i].outcome]

\* A deliver that does not wait for its workers.
Return_before_done ==
    /\ phase = "running"
    /\ phase' = "returned"
    /\ returned' = map_results(task)
    /\ UNCHANGED <<session, last, eng, vlog, failed_leads, batch, task, rl>>

\* Leaving the with block joins the workers: deliver ends when every task
\* has.
Return ==
    /\ phase = "running"
    /\ \A i \in DOMAIN task : task[i].pc = "done"
    /\ IF \E i \in DOMAIN task : task[i].outcome.status = "raised"
       THEN /\ phase' = "raised"
            /\ returned' = << >>
       ELSE /\ phase' = "returned"
            /\ returned' = map_results(task)
    /\ UNCHANGED <<session, last, eng, vlog, failed_leads, batch, task, rl>>

\* ------------------------------------------------------- specifications
\* The access tokens a caller constructs deliverers with: two opaque strings.
EngineTokens ==
    {1, 2}

Init ==
    /\ session = EmptySession
    /\ last = NoCall
    /\ eng = NoEngine("none")
    /\ vlog = NoVerify
    /\ failed_leads = << >>
    /\ phase = "idle"
    /\ batch = << >>
    /\ task = << >>
    /\ returned = << >>
    /\ rl = [f \in WrappedCalls |-> 0]

ConstructAny ==
    \E access_token \in EngineTokens, n_threads \in 1..MaxThreads :
        Construct(access_token, TRUE, n_threads)

\* The deliverer: constructed, then handed batches.
Next ==
    \/ ConstructAny
    \/ Deliver
    \/ \E i \in DOMAIN task : Take(i)
    \/ \E i \in DOMAIN task : Build(i)
    \/ \E i \in DOMAIN task : SendStart(i)
    \/ \E i \in DOMAIN task : SendEnd(i)
    \/ Return
    \/ Tick

Spec ==
    Init /\ [][Next]_vars

\* The session: the auth.py calls in any order.
NextAuth ==
    \/ ResetSession
    \/ GetAuthUrl
    \/ ExchangeCode
    \/ RefreshToken
    \/ Authenticate

SpecAuth ==
    Init /\ [][NextAuth]_vars

\* The application: the token manager's calls on the session, and deliverers
\* constructed with the access token the session holds and the defaults of
\* __init__.
ConstructFromSession ==
    /\ session.access_token # None
    /\ Construct(session.access_token, TRUE, 1)

NextApp ==
    \/ ResetSession
    \/ ExchangeCode
    \/ RefreshToken
    \/ ConstructFromSession
    \/ Tick

SpecApp ==
    Init /\ [][NextApp]_vars

\* The scheduler lets a worker that can step do so, every HTTP call ends, the
\* limiter's window ends, and the main thread goes on when the pool is done.
WorkerStep ==
    \E i \in DOMAIN task : Take(i) \/ Build(i) \/ SendStart(i) \/ SendEnd(i)

\* deliver has just been called on a verified deliverer, with a frame of rows
\* whose build raises (NALead) or succeeds (BareLead).
InitFair ==
    /\ session = EmptySession
    /\ \E n_threads \in 1..MaxThreads :
         eng = [alive |-> TRUE, access_token |-> 1, tags |-> << >>,
                add_zip_tags |-> TRUE, n_threads |-> n_threads, exc |-> "none"]
    /\ last = [NoCall EXCEPT !.op = "CINCProDeliverer"]
    /\ vlog = [NoVerify EXCEPT !.first = 200, !.result = "true", !.gets = <<1>>]
    /\ failed_leads = << >>
    /\ phase = "running"
    /\ \E data \in SeqsUpTo({NALead, BareLead}, MaxBatch) :
         /\ batch = data
         /\ task = [i \in DOMAIN data |-> NewTask]
    /\ returned = << >>
    /\ rl = [f \in WrappedCalls |-> IF f = "verify" THEN 1 ELSE 0]

NextFair ==
    \/ WorkerStep
    \/ Return
    \/ Tick

FairSpec ==
    InitFair /\ [][NextFair]_vars
    /\ WF_vars(WorkerStep) /\ WF_vars(Tick) /\ WF_vars(Return)

\* A deliverer used for several frames: deliver is called again on the object
\* once the call before has returned. MaxRepeatBatch bounds these frames and
\* MaxFailures the failure list at which the caller stops.
MaxRepeatBatch == 1
MaxFailures == 2

Redeliver ==
    /\ eng.alive
    /\ phase \in {"idle", "returned"}
    /\ Len(failed_leads) < MaxFailures
    /\ \E data \in SeqsUpTo(LeadPool, MaxRepeatBatch) :
         /\ batch' = data
         /\ task' = [i \in DOMAIN data |-> NewTask]
    /\ phase' = "running"
    /\ returned' = << >>
    /\ UNCHANGED <<session, last, eng, vlog, failed_leads, rl>>

NextRepeat ==
    \/ ConstructAny
    \/ Redeliver
    \/ \E i \in DOMAIN task : Take(i)
    \/ \E i \in DOMAIN task : Build(i)
    \/ \E i \in DOMAIN task : SendStart(i)
    \/ \E i \in DOMAIN task : SendEnd(i)
    \/ Return
    \/ Tick

SpecRepeat ==
    Init /\ [][NextRepeat]_vars

\* The payload builder on its own: a verified deliverer with any tag
\* configuration has been handed a frame of one row, with any cells.
BuilderLeads ==
    [md5 : {1}, first_name : {1}, last_name : {None},
     email_1 : {None, NaN, NA, 3},
     phone_1 : {None, NaN, 4, NumBase + 4}, phone_2 : {None, 5}, phone_3 : {None},
     address : {None, NA, 5}, city : {None, NA, 6}, state : {None, 7},
     zip_code : {Missing, None, NA, 8, NumBase + 8},
     insight : {None, 6}]

\* The tags argument of the constructor: none, or one tag.
TagLists ==
    {<< >>, <<1>>}

InitBuild ==
    /\ session = EmptySession
    /\ \E tags \in TagLists, add_zip_tags \in BOOLEAN :
         eng = [alive |-> TRUE, access_token |-> 1, tags |-> tags,
                add_zip_tags |-> add_zip_tags, n_threads |-> 1, exc |-> "none"]
    /\ last = [NoCall EXCEPT !.op = "CINCProDeliverer"]
    /\ vlog = [NoVerify EXCEPT !.first = 200, !.result = "true", !.gets = <<1>>]
    /\ failed_leads = << >>
    /\ phase = "running"
    /\ \E lead \in BuilderLeads : batch = <<lead>>
    /\ task = <<NewTask>>
    /\ returned = << >>
    /\ rl = [f \in WrappedCalls |-> IF f = "verify" THEN 1 ELSE 0]

NextBuild ==
    \/ Take(1)
    \/ Build(1)

SpecBuild ==
    InitBuild /\ [][NextBuild]_vars

\* ---------------------------------------------------------------- claims
Failed(i) ==
    task[i].outcome.status = "failed"

Delivered(i) ==
    task[i].outcome.status = "delivered"

\* C1: whenever deliver has ended, it has returned (not raised) a list with
\* exactly one outcome, delivered or failed, per row of the batch, for every
\* batch (the empty one too), every pool size and every mix of failures.
C1_OneOutcomePerLead ==
    phase \in {"returned", "raised"} =>
        /\ phase = "returned"
        /\ Len(returned) = Len(batch)
        /\ \A i \in DOMAIN returned : returned[i].status \in {"delivered", "failed"}

\* deliver returned for a batch of three on two threads, with failures and
\* a success among the outcomes.
C1_Witness ==
    /\ phase = "returned"
    /\ Len(batch) = 3
    /\ eng.n_threads = 2
    /\ \E i, j \in DOMAIN returned :
         returned[i].status = "failed" /\ returned[j].status = "delivered"

\* C2: a lead whose build or send raised has the outcome failed with str(e)
\* of what was raised, deliver never raises, and when deliver has returned
\* every lead of the batch was attempted (built once, and posted once unless
\* its own build raised).
C2_FailureIsolation ==
    /\ phase # "raised"
    /\ \A i \in DOMAIN task :
         task[i].exc # "none" =>
            task[i].outcome = [status |-> "failed", error |-> str(task[i].exc)]
    /\ phase = "returned" =>
         \A i \in DOMAIN task :
            /\ task[i].builds = 1
            /\ task[i].posts = (IF task[i].exc \in {"TypeError", "KeyError"} THEN 0 ELSE 1)

\* deliver returned after the first lead got a 500, the second could not be
\* built and the third was delivered.
C2_Witness ==
    /\ phase = "returned"
    /\ Len(batch) = 3
    /\ task[1].exc = "HTTPError"
    /\ task[2].exc = "TypeError"
    /\ Delivered(3)

\* The entries of a failure list that carry identifier m.
EntriesOf(log, m) ==
    {k \in DOMAIN log : log[k].md5 = m}

\* C3: when deliver has returned on a freshly constructed deliverer,
\* get_failure_leads() holds, for every identifier, as many entries as leads
\* with that identifier failed (so one entry per failed lead and none for a
\* delivered one), each entry with the error of such a lead.
C3_FailuresMatchFailedLeads ==
    phase = "returned" =>
        /\ Len(failed_leads) = Cardinality({i \in DOMAIN task : Failed(i)})
        /\ \A m \in {get(l, "md5") : l \in LeadPool} :
             Cardinality(EntriesOf(failed_leads, m))
               = Cardinality({i \in DOMAIN task : Failed(i) /\ get(batch[i], "md5") = m})
        /\ \A k \in DOMAIN failed_leads :
             \E i \in DOMAIN task :
                /\ Failed(i)
                /\ failed_leads[k] = [md5 |-> get(batch[i], "md5"),
                                      error |-> returned[i].error]

\* The scenario: three leads, only the second answered 500; three outcomes,
\* one failure entry with the second lead's identifier, the others delivered.
C3_Witness ==
    /\ phase = "returned"
    /\ batch = <<FullLead, BareLead, FullLead>>
    /\ Len(returned) = 3
    /\ task[2].exc = "HTTPError"
    /\ returned[1].status = "delivered"
    /\ returned[3].status = "delivered"
    /\ Len(failed_leads) = 1
    /\ failed_leads[1].md5 = BareLead.md5

\* C4: every constructed deliverer ran the verification (a GET /me) and got
\* true; a verification that returned false made __init__ raise AuthError
\* and left no deliverer; so every POST /leads comes from a deliverer whose
\* verification returned true.
C4_VerifiedBeforeDelivery ==
    /\ eng.alive => vlog.result = "true" /\ Len(vlog.gets) >= 1
    /\ vlog.result = "false" => ~eng.alive /\ eng.exc = "AuthError"
    /\ \A i \in DOMAIN task : task[i].posts > 0 => eng.alive /\ vlog.result = "true"

\* A construction that failed with AuthError because /me answered 403.
C4_Witness ==
    /\ vlog.first = 403
    /\ vlog.result = "false"
    /\ eng.exc = "AuthError"
    /\ ~eng.alive

\* The token endpoint would answer a refresh with a fresh pair.
RefreshWouldSucceed ==
    /\ vlog.tresp.status = 200
    /\ vlog.tresp.access_token # None
    /\ vlog.tresp.refresh_token # None

\* C5: when the first GET /me answers 401 and the retried one would answer
\* 200 (the token endpoint being ready to refresh), the verification returns
\* true after exactly one refresh call and two GETs.
C5_RefreshThenRetry ==
    (vlog.first = 401 /\ vlog.retry = 200 /\ RefreshWouldSucceed) =>
        /\ vlog.result = "true"
        /\ vlog.refresh_calls = 1
        /\ Len(vlog.gets) = 2

\* C6: a verification calls refresh at most once and only after a first 401,
\* issues at most two GETs and the second only after a refresh call; a first
\* answer that is another error status gives false, no refresh call and no
\* second GET.
C6_RefreshOnlyOn401 ==
    /\ vlog.refresh_calls <= 1
    /\ vlog.refresh_calls = 1 => vlog.first = 401
    /\ Len(vlog.gets) <= 2
    /\ Len(vlog.gets) = 2 => vlog.refresh_calls = 1
    /\ (vlog.first \in StatusCodes /\ ~ok(vlog.first) /\ vlog.first # 401) =>
         /\ vlog.result = "false"
         /\ vlog.refresh_calls = 0
         /\ vlog.refresh_posts = 0
         /\ Len(vlog.gets) = 1

\* A verification answered 403: false, no refresh, one GET.
C6_Witness ==
    /\ vlog.first = 403
    /\ vlog.result = "false"
    /\ vlog.refresh_calls = 0
    /\ Len(vlog.gets) = 1

\* The last call exchanged a code and the 200 answer lacked a token.
ExchangeLackedToken ==
    /\ last.op \in {"exchange_code_for_token", "authenticate"}
    /\ last.posts = 1
    /\ last.resp.status = 200
    /\ (last.resp.access_token = None \/ last.resp.refresh_token = None)

\* C7: after an exchange whose answer lacked the access or the refresh token,
\* AuthError was raised and the session holds no access token, no refresh
\* token and is not authenticated.
C7_NoTokensStoredOnMissingToken ==
    ExchangeLackedToken =>
        /\ last.exc = "AuthError"
        /\ session.access_token = None
        /\ session.refresh_token = None
        /\ ~session.authenticated

\* exchange_code_for_token got an answer with an access token and no refresh
\* token while the session held a pair.
C7_Witness ==
    /\ last.op = "exchange_code_for_token"
    /\ last.resp.status = 200
    /\ last.resp.access_token # None
    /\ last.resp.refresh_token = None
    /\ last.before[1] # None
    /\ last.before[2] # None
    /\ last.exc = "AuthError"

\* C8: after an exchange or a refresh that failed on a non-2xx answer or on a
\* missing token, and after a construction that failed with AuthError, the
\* session holds no access token and no refresh token.
C8_ClearedOnAnyAuthError ==
    /\ (last.op \in {"exchange_code_for_token", "refresh_token", "authenticate"}
        /\ last.exc \in {"HTTPError", "AuthError"}) =>
            TokenPair(session) = <<None, None>>
    /\ (last.op = "CINCProDeliverer" /\ last.exc = "AuthError") =>
            TokenPair(session) = <<None, None>>

\* C9: after a refresh that succeeded, the stored pair is the pair of that
\* answer: both tokens replaced, whatever was stored before.
C9_RefreshOverwritesPair ==
    (last.op = "refresh_token" /\ last.exc = "none") =>
        /\ session.access_token = last.resp.access_token
        /\ session.refresh_token = last.resp.refresh_token
        /\ session.access_token # None
        /\ session.refresh_token # None

\* A refresh succeeded on a session that held another pair: both tokens
\* differ from the ones held before.
C9_Witness ==
    /\ last.op = "refresh_token"
    /\ last.exc = "none"
    /\ last.before[1] # None
    /\ last.before[2] # None
    /\ session.access_token # last.before[1]
    /\ session.refresh_token # last.before[2]

\* C10: in every interleaving each wrapped function was admitted at most
\* RateCalls times in the current window; a _send_event waiting at the limiter
\* has not failed (no exception, no outcome, no failure entry taken for it)
\* and can start exactly when the window has budget left.
C10_Throttled ==
    /\ \A f \in WrappedCalls : rl[f] <= RateCalls
    /\ \A i \in DOMAIN task :
         task[i].pc = "waiting" =>
            /\ task[i].exc = "none"
            /\ task[i].outcome = NoOutcome
            /\ Len(failed_leads) = Cardinality({j \in DOMAIN task : Failed(j)})
            /\ (ENABLED SendStart(i)) <=> (rl["send"] < RateCalls)

\* Two threads; one lead waits at the limiter while the window's budget is
\* used up.
C10_Witness ==
    /\ eng.n_threads = 2
    /\ rl["send"] = RateCalls
    /\ \E i \in DOMAIN task : task[i].pc = "waiting"
    /\ \E j \in DOMAIN task : task[j].pc = "posting"

\* C11: in every reachable state the failure list is no longer than the
\* batch handed to deliver, and no identifier is in more than one of its
\* entries; stated for batches whose rows have pairwise distinct identifiers.
C11_FailureLogWithinBatch ==
    (\A i, j \in DOMAIN batch : i # j => batch[i].md5 # batch[j].md5) =>
        /\ Len(failed_leads) <= Len(batch)
        /\ \A k, l \in DOMAIN failed_leads :
             k # l => failed_leads[k].md5 # failed_leads[l].md5

\* A cell the row has a value in: not None and none of pandas' markers of a
\* missing value.
HasValue(lead, column) ==
    get(lead, column) \notin {None, NA, NaN}

\* C12: the contact object of every built payload has email and
\* is_validated_email exactly when the lead has an email, mailing_address
\* exactly when it has street, city, state and zip, and always phone_numbers
\* with its three keys, null for each number the lead does not have.
C12_ContactShape ==
    \A i \in DOMAIN task :
        (task[i].builds = 1 /\ task[i].exc = "none") =>
            LET lead == batch[i]
                contact == task[i].payload.info.contact
            IN  /\ ("email" \in DOMAIN contact) <=> HasValue(lead, "email_1")
                /\ ("is_validated_email" \in DOMAIN contact) <=> HasValue(lead, "email_1")
                /\ ("mailing_address" \in DOMAIN contact) <=>
                      \A c \in {"address", "city", "state", "zip_code"} : HasValue(lead, c)
                /\ "phone_numbers" \in DOMAIN contact
                /\ DOMAIN contact.phone_numbers = {"cell_phone", "home_phone", "work_phone"}
                /\ ~HasValue(lead, "phone_1") => contact.phone_numbers.cell_phone = None
                /\ ~HasValue(lead, "phone_2") => contact.phone_numbers.home_phone = None
                /\ ~HasValue(lead, "phone_3") => contact.phone_numbers.work_phone = None

\* The token pair of an answer of the token endpoint.
ResponsePair(resp) ==
    <<resp.access_token, resp.refresh_token>>

\* C13 as stated: exchange_code_for_token and refresh_token leave the session
\* as it was and, when they succeed, hand both tokens of the answer to their
\* caller.
C13_NoSessionMutation ==
    last.op \in {"exchange_code_for_token", "refresh_token"} =>
        /\ TokenPair(session) = last.before
        /\ last.exc = "none" => last.ret = ResponsePair(last.resp)

\* C13, amended: when exchange_code_for_token or refresh_token succeeds it has
\* stored both tokens of the answer in the session and hands its caller
\* nothing; when it raises it hands nothing either, and the session holds the
\* pair it held before or, after AuthError, no token at all.
C13_StoresAndReturnsNothing ==
    last.op \in {"exchange_code_for_token", "refresh_token"} =>
        /\ last.ret = NoReturn
        /\ last.exc = "none" => TokenPair(session) = ResponsePair(last.resp)
        /\ last.exc = "AuthError" => TokenPair(session) = <<None, None>>
        /\ last.exc \in {"HTTPError", "ConnectionError"} => TokenPair(session) = last.before

\* A refresh succeeded on a session that held a pair, and the answer's pair
\* differs from it: the session was changed by the call.
C13_Witness ==
    /\ last.op = "refresh_token"
    /\ last.exc = "none"
    /\ last.before[1] # None
    /\ ResponsePair(last.resp) # last.before
    /\ TokenPair(session) = ResponsePair(last.resp)

\* C14: on a pool of more than one thread, in every interleaving, the failure
\* list of a fresh deliverer has exactly one entry per lead that has failed
\* so far, none lost and none twice, up to and including the moment deliver
\* returns.
C14_NoLostAppend ==
    eng.n_threads > 1 =>
        /\ Len(failed_leads) = Cardinality({i \in DOMAIN task : Failed(i)})
        /\ \A i \in DOMAIN task :
             Failed(i) =>
                \E k \in DOMAIN failed_leads :
                   failed_leads[k] = [md5 |-> get(batch[i], "md5"),
                                      error |-> task[i].outcome.error]

\* Two workers failed on two leads and appended in the order opposite to
\* the rows: the second lead's entry is first in the list.
C14_Witness ==
    /\ phase = "returned"
    /\ eng.n_threads = 2
    /\ batch = <<BareLead, FullLead>>
    /\ Failed(1)
    /\ Failed(2)
    /\ Len(failed_leads) = 2
    /\ failed_leads[1].md5 = FullLead.md5

\* C15: when the first GET /me answered 401 and the token endpoint answers
\* the refresh with a fresh pair, a second GET /me was sent with the new
\* access token of that pair, and every POST /leads of the deliverer carries
\* that token too.
C15_RetryCarriesNewToken ==
    (vlog.first = 401 /\ RefreshWouldSucceed) =>
        /\ Len(vlog.gets) = 2
        /\ vlog.gets[2] = vlog.tresp.access_token
        /\ \A i \in DOMAIN task :
             task[i].posts > 0 => task[i].auth = vlog.tresp.access_token

\* The status of a lead: pending until a worker takes it, building inside
\* _prepare_event_data, sending from the built payload to the end of
\* _send_event (the wait at the rate limiter included), then its outcome.
Status(t) ==
    CASE t.pc = "pending" -> "pending"
      [] t.pc = "building" -> "building"
      [] t.pc \in {"waiting", "posting"} -> "sending"
      [] OTHER -> t.outcome.status

\* The steps of the path; a build that raises takes the lead from building
\* to failed.
StatusSteps ==
    {<<"pending", "building">>, <<"building", "sending">>, <<"building", "failed">>,
     <<"sending", "delivered">>, <<"sending", "failed">>}

\* C16: within a deliver call the status of a lead moves only along
\* pending -> building -> sending -> delivered or failed, and never leaves
\* delivered or failed; its payload is built at most once and at most one
\* POST /leads is issued for it: when it has ended, exactly one if the build
\* succeeded and none if the build raised.
C16_LeadPath ==
    /\ [][\A i \in DOMAIN task \cap DOMAIN task' :
            \/ Status(task'[i]) = Status(task[i])
            \/ <<Status(task[i]), Status(task'[i])>> \in StatusSteps]_vars
    /\ [](\A i \in DOMAIN task :
            /\ task[i].builds <= 1
            /\ task[i].posts <= 1
            /\ Status(task[i]) \in {"pending", "building", "sending", "delivered", "failed"}
            /\ Status(task[i]) \in {"delivered", "failed"} =>
                  /\ task[i].builds = 1
                  /\ task[i].posts = (IF task[i].payload = NoPayload THEN 0 ELSE 1))

\* deliver returned with a lead whose build raised (no POST), a lead whose
\* POST failed and a lead that was delivered (one POST each).
C16_Witness ==
    /\ phase = "returned"
    /\ \E i, j, k \in DOMAIN task :
         /\ Failed(i) /\ task[i].exc = "TypeError" /\ task[i].posts = 0
         /\ Failed(j) /\ task[j].exc = "HTTPError" /\ task[j].posts = 1
         /\ Delivered(k) /\ task[k].posts = 1

\* C17: deliver has returned only when every lead of the batch is delivered
\* or failed; and when the workers are scheduled fairly, every HTTP call ends
\* and the limiter's window ends, a deliver that was called returns, for
\* every batch and pool size.
C17_DeliverReturns ==
    /\ [](phase = "returned" =>
            \A i \in DOMAIN task : Status(task[i]) \in {"delivered", "failed"})
    /\ (phase = "running" ~> phase = "returned")

\* deliver returned for a full batch on two threads with every lead posted:
\* more POSTs than one window of the limiter admits.
C17_Witness ==
    /\ phase = "returned"
    /\ eng.n_threads = 2
    /\ Len(batch) = MaxBatch
    /\ \A i \in DOMAIN task : task[i].posts = 1

\* C18: at every moment the leads being built or sent are at most n_threads;
\* on one thread a lead is started only when every lead before it has ended.
C18_BoundedPool ==
    /\ Cardinality(InFlight) <= eng.n_threads
    /\ eng.n_threads = 1 =>
         \A i, j \in DOMAIN task :
            (i < j /\ task[j].pc # "pending") => task[i].pc = "done"

\* Both threads of a pool of two are busy while a third lead waits in the
\* queue.
C18_Witness ==
    /\ eng.n_threads = 2
    /\ Cardinality(InFlight) = 2
    /\ \E i \in DOMAIN task : task[i].pc = "pending"

C20_ResultsInInputOrder ==
    phase = "returned" =>
        /\ DOMAIN returned = DOMAIN batch
        /\ \A i \in DOMAIN returned :
             /\ returned[i] = task[i].outcome
             /\ returned[i] = (IF task[i].exc = "none"
                               THEN [status |-> "delivered", error |-> ""]
                               ELSE [status |-> "failed", error |-> str(task[i].exc)])
             /\ NATested(batch[i]) => returned[i].error = str("TypeError")

\* On two threads the second row's worker ended first (its failure entry is
\* the first of the list) and with another error than the first row's: the
\* returned list still has the first row's outcome first.
C20_Witness ==
    /\ phase = "returned"
    /\ eng.n_threads = 2
    /\ Len(batch) = 2
    /\ Len(failed_leads) = 2
    /\ failed_leads[1] = [md5 |-> get(batch[2], "md5"), error |-> returned[2].error]
    /\ failed_leads[2] = [md5 |-> get(batch[1], "md5"), error |-> returned[1].error]
    /\ get(batch[1], "md5") # get(batch[2], "md5")
    /\ returned[1].error # returned[2].error

\* C21: after every sequence of calls on the session, the session is marked
\* authenticated only while it holds an access token and a refresh token;
\* an authenticate whose state argument differed from the stored state sent
\* no token request; and every authenticate that failed (state mismatch, or
\* the exchange raised) left the session reset: not authenticated, no
\* tokens, no state.
C21_AuthenticatedHasTokens ==
    /\ session.authenticated =>
         (session.access_token # None /\ session.refresh_token # None)
    /\ (last.op = "authenticate" /\ last.mismatch) => last.posts = 0
    /\ (last.op = "authenticate" /\ (last.mismatch \/ last.exc # "none")) =>
         session = EmptySession
    /\ (last.op = "authenticate" /\ last.posts = 0) => last.mismatch

\* An authenticated session holding a pair called authenticate again and the
\* token endpoint answered with an error status: the session is reset.
C21_Witness ==
    /\ last.op = "authenticate"
    /\ ~last.mismatch
    /\ last.exc = "HTTPError"
    /\ last.before[1] # None
    /\ last.before[2] # None
    /\ session = EmptySession

====
